---- MODULE Spec2Model ----
(***************************************************************************)
(* Model of models/axial_to_lateral_gan_artemis_model.py:                  *)
(*   - the Volume class (get_slice, set_slice, get_projection) and iter_f, *)
(*     as operators over small tensors, exercised by SpecVolume;           *)
(*   - AxialToLateralGANArtemisModel.optimize_parameters as a state        *)
(*     machine over its statements, exercised by Spec.                     *)
(* A tensor of shape (N,C,D,H,W) is modelled with N = C = 1: a function    *)
(* from <<z,y,x>> to integers together with its shape <<D,H,W>>.           *)
(***************************************************************************)
EXTENDS Integers, Sequences, FiniteSets, TLC

\* ------------------------------------------------------------------ bounds
MaxDim == 3        \* largest extent of D, H and W
MaxDepth == 2      \* largest projection depth
MaxSteps == 2      \* number of consecutive training steps

VARIABLES
    \* --- Volume / iter_f calls (SpecVolume)
    vol,            \* the Volume object the call is made on
    call,           \* the call made: operation and arguments
    ret,            \* what the call returned or raised
    \* --- training (Spec)
    pc,             \* position in the training loop / optimize_parameters
    stepNo,         \* number of optimize_parameters calls started
    mix_planes,     \* self.mix_planes
    randomize_projection_depth, \* self.randomize_projection_depth
    opt_projection_depth,       \* opt.projection_depth
    cube_shape,     \* self.cube_shape, as <<D,H,W>>
    num_slice,      \* self.num_slice
    projection_depth,   \* self.projection_depth
    tensors,        \* autograd graph of self.real, self.fake, self.rec
    source_sl_axis, \* the local source_sl_axis of optimize_parameters
    requires_grad,  \* requires_grad of each network's parameters
    grad,           \* accumulated .grad of each network's parameters
    params,         \* version of each network's parameters
    params_at_start,\* params when the current optimize_parameters began
    lateral_start,  \* start indices drawn for real_lateral_proj, fake_lateral_proj
    proj_axis,      \* the axis each place handed to the axial-projection head
    trace           \* statements of optimize_parameters completed in this call

volVars == <<vol, call, ret>>
trainVars == <<pc, stepNo, mix_planes, randomize_projection_depth,
               opt_projection_depth, cube_shape, num_slice, projection_depth,
               tensors, source_sl_axis, requires_grad, grad, params,
               params_at_start, lateral_start, proj_axis, trace>>
vars == <<volVars, trainVars>>

\* ------------------------------------------------------------- tensors
Extents == 1..MaxDim
Shapes == Extents \X Extents \X Extents
Coefs == {-1, 1}
Patterns == Coefs \X Coefs \X Coefs

Cells(shape) == (0..shape[1]-1) \X (0..shape[2]-1) \X (0..shape[3]-1)

\* a tensor whose value at <<z,y,x>> is linear in the indices
Tensor(shape, k) ==
    [shape |-> shape,
     data  |-> [c \in Cells(shape) |-> k[1]*c[1] + k[2]*c[2] + k[3]*c[3]]]

SetMax(S) == CHOOSE m \in S : \A v \in S : v <= m

None == [status |-> "ok", kind |-> "None"]
Raise(e) == [status |-> "error", kind |-> e]
Return(k, v) == [status |-> "ok", kind |-> k, value |-> v]

\* a slip of the bound: the upper end is taken as inclusive
randint_inclusive(low, high) == low..high

\* np.random.randint(low, high): the values it can return; none when it raises
randint(low, high) == low..(high - 1)

\* class Volume, __init__
VolumeShapeLast(shape) == shape[3]
Volume(t) == [volume |-> t, num_slice |-> VolumeShapeLast(t.shape)]

\* the extent of the dimension that slice_axis addresses (dimension slice_axis + 2)
Extent(shape, slice_axis) == shape[slice_axis + 1]

\* spatial shape <<h,w>> of a 4D tensor obtained by dropping dimension slice_axis + 2
PlaneShape(shape, slice_axis) ==
    CASE slice_axis = 0 -> <<shape[2], shape[3]>>
      [] slice_axis = 1 -> <<shape[1], shape[3]>>
      [] slice_axis = 2 -> <<shape[1], shape[2]>>

Positions(pshape) == (0..pshape[1]-1) \X (0..pshape[2]-1)

\* the cell of the volume at position p of the plane with index i along slice_axis
CellAt(slice_axis, i, p) ==
    CASE slice_axis = 0 -> <<i, p[1], p[2]>>
      [] slice_axis = 1 -> <<p[1], i, p[2]>>
      [] slice_axis = 2 -> <<p[1], p[2], i>>

\* the position, in the plane across slice_axis, of the cell c of the volume
PosOf(slice_axis, c) ==
    CASE slice_axis = 0 -> <<c[2], c[3]>>
      [] slice_axis = 1 -> <<c[1], c[3]>>
      [] slice_axis = 2 -> <<c[1], c[2]>>

Plane(pshape, data) == [shape |-> pshape, data |-> data]

\* Volume.get_slice with the index already picked
get_slice(self, slice_index_pick, slice_axis) ==
    IF slice_axis \in {0, 1, 2}
    THEN IF slice_index_pick < Extent(self.volume.shape, slice_axis)
         THEN LET pshape == PlaneShape(self.volume.shape, slice_axis)
              IN Return("slice",
                        Plane(pshape,
                              [p \in Positions(pshape) |->
                                 self.volume.data[CellAt(slice_axis, slice_index_pick, p)]]))
         ELSE Raise("IndexError")
    ELSE None

\* Volume.set_slice: the tensor self.volume after the call, or the error raised
set_slice(self, slice_index, slice_axis, new_slice) ==
    IF slice_axis \in {0, 1, 2}
    THEN IF slice_index >= Extent(self.volume.shape, slice_axis)
         THEN Raise("IndexError")
         ELSE IF new_slice.shape # PlaneShape(self.volume.shape, slice_axis)
         THEN Raise("RuntimeError")
         ELSE Return("volume",
                     [self.volume EXCEPT !.data =
                        [c \in Cells(self.volume.shape) |->
                           IF c[slice_axis + 1] = slice_index
                           THEN new_slice.data[PosOf(slice_axis, c)]
                           ELSE self.volume.data[c]]])
    ELSE Return("volume", self.volume)

\* the indices selected by the Python slice start_index:start_index + depth
\* on a dimension of the given extent
SliceRange(start_index, depth, extent) ==
    {k \in start_index..(start_index + depth - 1) : k < extent}

\* Volume.get_projection with the start index already drawn
get_projection(self, depth, slice_axis, start_index) ==
    IF slice_axis \notin {0, 1, 2}
    THEN Raise("UnboundLocalError")
    ELSE LET ROI == SliceRange(start_index, depth,
                               Extent(self.volume.shape, slice_axis))
             pshape == PlaneShape(self.volume.shape, slice_axis)
         IN IF ROI = {}
            THEN Raise("IndexError")
            ELSE Return("mip",
                        Plane(pshape,
                              [p \in Positions(pshape) |->
                                 SetMax({self.volume.data[CellAt(slice_axis, k, p)] :
                                           k \in ROI})]))

\* ------------------------------------------------------ discriminators, iter_f
Discriminators == {"D_A_lateral", "D_A_axial", "D_A_axial_proj",
                   "D_B_lateral", "D_B_axial", "D_B_axial_proj"}
Generators == {"G_A", "G_B"}
Networks == Generators \cup Discriminators

\* a discriminator applied to a 4D plane: a prediction map of a fixed shape for
\* a given input shape, never equal to the zero fill; None is not a tensor
Apply(function, plane) ==
    IF plane.kind = "None"
    THEN Raise("TypeError")
    ELSE Return("pred",
                Plane(plane.value.shape,
                      [p \in Positions(plane.value.shape) |-> 2 * plane.value.data[p] + 1]))

zeros(shape) == [shape |-> shape, data |-> [c \in Cells(shape) |-> 0]]

\* a slip of the loop bound: the last index is not visited
range_short(n) == [k \in 1..(n - 1) |-> k - 1]

\* range(n), as the sequence of the values the loop variable takes
range(n) == [k \in 1..n |-> k - 1]

RECURSIVE iter_loop(_, _, _, _, _)
iter_loop(input_tensor, function, slice_axis, output_tensor, todo) ==
    IF todo = <<>>
    THEN Return("volume", output_tensor.volume)
    ELSE LET i == Head(todo)
             input_slice == get_slice(input_tensor, i, slice_axis)
         IN IF input_slice.status = "error" THEN input_slice
            ELSE LET output_slice == Apply(function, input_slice)
                 IN IF output_slice.status = "error" THEN output_slice
                    ELSE LET w == set_slice(output_tensor, i, 0, output_slice.value)
                         IN IF w.status = "error" THEN w
                            ELSE iter_loop(input_tensor, function, slice_axis,
                                           [output_tensor EXCEPT !.volume = w.value],
                                           Tail(todo))

\* AxialToLateralGANArtemisModel.iter_f, with self.num_slice passed in
iter_f(input, function, slice_axis, self_num_slice) ==
    LET input_tensor == Volume(input)
        first == get_slice(input_tensor, 0, slice_axis)
    IN IF first.status = "error" THEN first
       ELSE LET test_slice == Apply(function, first)
            IN IF test_slice.status = "error" THEN test_slice
               ELSE iter_loop(input_tensor, function, slice_axis,
                              Volume(zeros(<<self_num_slice, test_slice.value.shape[1],
                                             test_slice.value.shape[2]>>)),
                              range(self_num_slice))

\* ------------------------------------------------- calls on a Volume (SpecVolume)
AxisInputs == {-1, 0, 1, 2, 3}       \* axis selectors tried, valid and invalid
IndexInputs == 0..(MaxDim - 1)      \* slice indices tried
DepthInputs == 1..MaxDepth          \* projection depths tried
NoCall == [op |-> "none", slice_index |-> 0, slice_axis |-> 0, depth |-> 0, drawn |-> -1]
NotCalled == [status |-> "none", kind |-> "none"]

\* the shape of the tensor the call was made on, and the extent of the axis it names
CallShape == vol.volume.shape

\* the three places that derive the axis of the axial-projection heads
ProjPlaces == {"backward_G", "backward_D_A_axial_proj", "backward_D_B_axial_proj"}

\* the state the training variables keep while Volume calls are exercised
TrainIdle ==
    /\ pc = "off" /\ stepNo = 0 /\ mix_planes = FALSE
    /\ randomize_projection_depth = FALSE /\ opt_projection_depth = 1
    /\ cube_shape = <<1, 1, 1>> /\ num_slice = 1 /\ projection_depth = 1
    /\ tensors = [real |-> {}, fake |-> {}, rec |-> {}]
    /\ source_sl_axis = -1
    /\ requires_grad = [n \in Networks |-> TRUE]
    /\ grad = [n \in Networks |-> {}]
    /\ params = [n \in Networks |-> 0]
    /\ params_at_start = [n \in Networks |-> 0]
    /\ lateral_start = <<-1, -1>>
    /\ proj_axis = [place \in ProjPlaces |-> -1]
    /\ trace = <<>>

InitVolume ==
    /\ \E shape \in Shapes, k \in Patterns : vol = Volume(Tensor(shape, k))
    /\ call = NoCall
    /\ ret = NotCalled
    /\ TrainIdle

\* Volume.get_slice(slice_index, slice_axis, pick_random)
CallGetSlice ==
    /\ call.op = "none"
    /\ \E slice_index \in IndexInputs, slice_axis \in AxisInputs, pick_random \in BOOLEAN :
         \E slice_index_pick \in IF pick_random THEN randint(0, vol.num_slice)
                                 ELSE {slice_index} :
            /\ call' = [NoCall EXCEPT !.op = "get_slice", !.slice_index = slice_index,
                                      !.slice_axis = slice_axis,
                                      !.drawn = IF pick_random THEN slice_index_pick ELSE -1]
            /\ ret' = get_slice(vol, slice_index_pick, slice_axis)
    /\ UNCHANGED <<vol, trainVars>>

\* Volume.set_slice(slice_index, slice_axis, new_slice), new_slice a constant plane
CallSetSlice ==
    /\ call.op = "none"
    /\ \E slice_index \in IndexInputs, slice_axis \in AxisInputs :
         LET pshape == IF slice_axis \in {0, 1, 2}
                       THEN PlaneShape(CallShape, slice_axis)
                       ELSE <<1, 1>>
             new_slice == Plane(pshape, [p \in Positions(pshape) |-> 9])
             r == set_slice(vol, slice_index, slice_axis, new_slice)
         IN /\ call' = [NoCall EXCEPT !.op = "set_slice", !.slice_index = slice_index,
                                      !.slice_axis = slice_axis]
            /\ IF r.status = "error"
               THEN ret' = r /\ vol' = vol
               ELSE ret' = None /\ vol' = [vol EXCEPT !.volume = r.value]
    /\ UNCHANGED trainVars

\* Volume.get_projection(depth, slice_axis)
CallGetProjection ==
    /\ call.op = "none"
    /\ \E depth \in DepthInputs, slice_axis \in AxisInputs :
         IF randint(0, vol.num_slice - depth) = {}
         THEN /\ call' = [NoCall EXCEPT !.op = "get_projection", !.depth = depth,
                                        !.slice_axis = slice_axis]
              /\ ret' = Raise("ValueError")
         ELSE \E start_index \in randint(0, vol.num_slice - depth) :
              /\ call' = [NoCall EXCEPT !.op = "get_projection", !.depth = depth,
                                        !.slice_axis = slice_axis, !.drawn = start_index]
              /\ ret' = get_projection(vol, depth, slice_axis, start_index)
    /\ UNCHANGED <<vol, trainVars>>

\* iter_f(input, function, slice_axis) on a tensor of the shape set_input recorded
CallIterF ==
    /\ call.op = "none"
    /\ \E slice_axis \in AxisInputs, function \in {"D_A_lateral"} :
         /\ call' = [NoCall EXCEPT !.op = "iter_f", !.slice_axis = slice_axis]
         /\ ret' = iter_f(vol.volume, function, slice_axis, CallShape[1])
    /\ UNCHANGED <<vol, trainVars>>

NextVolume == CallGetSlice \/ CallSetSlice \/ CallGetProjection \/ CallIterF

SpecVolume == InitVolume /\ [][NextVolume]_vars

\* ------------------------------------------------------------- training step
\* self.target_sl_axis, set once in __init__
target_sl_axis == 0

\* a slip of the order: the discriminators are unfrozen before backward_G
optimize_parameters_unfreeze_early ==
    << "forward", "draw_axis", "freeze_D", "zero_grad_G", "unfreeze_D", "backward_G",
       "step_G", "zero_grad_D",
       "backward_D_A_lateral", "backward_D_A_axial", "backward_D_A_axial_proj",
       "backward_D_B_lateral", "backward_D_B_axial", "backward_D_B_axial_proj",
       "step_D" >>

\* the statements of optimize_parameters, in program order
optimize_parameters ==
    << "forward", "draw_axis", "freeze_D", "zero_grad_G", "backward_G", "step_G",
       "unfreeze_D", "zero_grad_D",
       "backward_D_A_lateral", "backward_D_A_axial", "backward_D_A_axial_proj",
       "backward_D_B_lateral", "backward_D_B_axial", "backward_D_B_axial_proj",
       "step_D" >>

IndexOf(stmt) == CHOOSE k \in 1..Len(optimize_parameters) : optimize_parameters[k] = stmt

\* the position after statement stmt has completed
After(stmt) ==
    IF IndexOf(stmt) = Len(optimize_parameters)
    THEN "idle"
    ELSE optimize_parameters[IndexOf(stmt) + 1]

\* a slip of the first list: one projection discriminator is left out
FrozenNets_one_missing == {"D_A_lateral", "D_A_axial", "D_B_lateral", "D_B_axial",
                           "D_B_axial_proj"}

\* the networks named in the two set_requires_grad calls
FrozenNets == {"D_A_lateral", "D_A_axial", "D_A_axial_proj",
               "D_B_lateral", "D_B_axial", "D_B_axial_proj"}
UnfrozenNets == {"D_A_lateral", "D_A_axial", "D_A_axial_proj",
                 "D_B_lateral", "D_B_axial", "D_B_axial_proj"}

\* the parameter groups of the two optimizers
optimizer_G == {"G_A", "G_B"}
optimizer_D == {"D_A_axial", "D_A_lateral", "D_A_axial_proj",
                "D_B_axial", "D_B_lateral", "D_B_axial_proj"}

\* BaseModel.set_requires_grad(nets, flag)
set_requires_grad(rg, nets, flag) == [n \in Networks |-> IF n \in nets THEN flag ELSE rg[n]]

\* optimizer.zero_grad() and optimizer.step() on a parameter group
zero_grad(g, group) == [n \in Networks |-> IF n \in group THEN {} ELSE g[n]]
step(ps, group) == [n \in Networks |-> IF n \in group THEN ps[n] + 1 ELSE ps[n]]

\* A tensor's autograd graph is the set of networks whose parameters it was
\* computed from; a network output adds the network to its input's graph.
NetOut(net, inputGraph) == inputGraph \cup {net}
\* a slip: the tensor is passed on without being detached
detach_missing(graph) == graph
detach(graph) == {}

\* loss.backward(): the loss is accumulated into the .grad of every network of
\* its graph whose parameters require grad
backward(g, rg, loss, graph) ==
    [n \in Networks |-> IF n \in graph /\ rg[n] THEN g[n] \cup {loss} ELSE g[n]]

\* the axis of the projection heads, as derived at each of its three places
compare_sl_axis_A(mix, source) == IF mix THEN (IF source = 1 THEN 0 ELSE 1) ELSE source
compare_sl_axis_B(mix, source) == IF mix THEN (IF source = 1 THEN 0 ELSE 1) ELSE source
remain_sl_axis(mix, source) == IF mix THEN (IF source = 1 THEN 0 ELSE 1) ELSE source

\* self.real, self.fake and self.rec all have the shape set_input recorded; the
\* errors of iter_f and get_projection depend on the shape alone
Cube == Tensor(cube_shape, <<1, 1, 1>>)
IterFRaises(slice_axis) ==
    iter_f(Cube, "D_A_lateral", slice_axis, num_slice).status = "error"
ProjStarts == randint(0, Volume(Cube).num_slice - projection_depth)
ProjRaises(slice_axis, start_index) ==
    get_projection(Volume(Cube), projection_depth, slice_axis, start_index).status = "error"

\* graph of the loss of backward_D_basic / backward_D_projection
loss_D_graph(netD, real, fake) == NetOut(netD, real) \cup NetOut(netD, detach(fake))

\* graph of self.loss_G
loss_G_graph ==
    NetOut("D_A_lateral", tensors.fake) \cup NetOut("D_A_axial", tensors.fake)
      \cup NetOut("D_A_axial_proj", tensors.fake)
      \cup NetOut("D_B_lateral", tensors.rec) \cup NetOut("D_B_axial", tensors.rec)
      \cup NetOut("D_B_axial_proj", tensors.rec)
      \cup (tensors.rec \cup tensors.real)
      \cup (tensors.real \cup tensors.fake)

Unset == -1

Init ==
    /\ vol = Volume(Tensor(<<1, 1, 1>>, <<1, 1, 1>>))
    /\ call = NoCall
    /\ ret = NotCalled
    /\ pc = "idle"
    /\ stepNo = 0
    /\ mix_planes \in BOOLEAN
    /\ randomize_projection_depth \in BOOLEAN
    /\ opt_projection_depth \in DepthInputs
    /\ cube_shape = <<1, 1, 1>>
    /\ num_slice = 1
    /\ projection_depth = 1
    /\ tensors = [real |-> {}, fake |-> {}, rec |-> {}]
    /\ source_sl_axis = Unset
    /\ requires_grad = [n \in Networks |-> TRUE]
    /\ grad = [n \in Networks |-> {}]
    /\ params = [n \in Networks |-> 0]
    /\ params_at_start = [n \in Networks |-> 0]
    /\ lateral_start = <<Unset, Unset>>
    /\ proj_axis = [place \in ProjPlaces |-> Unset]
    /\ trace = <<>>

\* what no statement of optimize_parameters assigns
stepFrame == <<volVars, stepNo, mix_planes, randomize_projection_depth,
               opt_projection_depth, cube_shape, num_slice, projection_depth,
               params_at_start>>

\* the frame of a statement: it completes, or the call aborts with an error
Done(stmt) == pc' = After(stmt) /\ trace' = Append(trace, stmt)
Abort == pc' = "error" /\ trace' = trace

\* set_input(input), followed by the entry into optimize_parameters
SetInput ==
    /\ pc = "idle"
    /\ stepNo < MaxSteps
    /\ \E shape \in Shapes :
         /\ cube_shape' = shape
         /\ num_slice' = shape[1]
    /\ IF ~randomize_projection_depth
       THEN projection_depth' = opt_projection_depth /\ pc' = optimize_parameters[1]
       ELSE IF randint(2, opt_projection_depth + 1) = {}
       THEN projection_depth' = projection_depth /\ pc' = "error"
       ELSE /\ projection_depth' \in randint(2, opt_projection_depth + 1)
            /\ pc' = optimize_parameters[1]
    /\ tensors' = [tensors EXCEPT !.real = {}]
    /\ stepNo' = stepNo + 1
    /\ params_at_start' = params
    /\ source_sl_axis' = Unset
    /\ lateral_start' = <<Unset, Unset>>
    /\ proj_axis' = [place \in ProjPlaces |-> Unset]
    /\ trace' = <<>>
    /\ UNCHANGED <<volVars, mix_planes, randomize_projection_depth,
                   opt_projection_depth, requires_grad, grad, params>>

\* self.forward()
Forward ==
    /\ pc = "forward"
    /\ tensors' = [real |-> tensors.real,
                   fake |-> NetOut("G_A", tensors.real),
                   rec  |-> NetOut("G_B", NetOut("G_A", tensors.real))]
    /\ Done("forward")
    /\ UNCHANGED <<stepFrame, source_sl_axis, requires_grad, grad, params,
                   lateral_start, proj_axis>>

\* values of np.random.uniform(0, 1), in hundredths
Chances == {0, 25, 49, 50, 75, 99}
ChooseAxis(chance) == IF chance < 50 THEN 1 ELSE 0

DrawAxis ==
    /\ pc = "draw_axis"
    /\ \E chance \in Chances : source_sl_axis' = ChooseAxis(chance)
    /\ Done("draw_axis")
    /\ UNCHANGED <<stepFrame, tensors, requires_grad, grad, params, lateral_start,
                   proj_axis>>

\* self.set_requires_grad([the six discriminators], False)
FreezeD ==
    /\ pc = "freeze_D"
    /\ requires_grad' = set_requires_grad(requires_grad, FrozenNets, FALSE)
    /\ Done("freeze_D")
    /\ UNCHANGED <<stepFrame, tensors, source_sl_axis, grad, params, lateral_start,
                   proj_axis>>

\* self.optimizer_G.zero_grad()
ZeroGradG ==
    /\ pc = "zero_grad_G"
    /\ grad' = zero_grad(grad, optimizer_G)
    /\ Done("zero_grad_G")
    /\ UNCHANGED <<stepFrame, tensors, source_sl_axis, requires_grad, params,
                   lateral_start, proj_axis>>

\* self.backward_G(source_sl_axis): four iter_f calls and two proj_f calls on
\* fake and rec, the two lateral projections, then loss_G.backward()
BackwardG ==
    /\ pc = "backward_G"
    /\ LET remain == remain_sl_axis(mix_planes, source_sl_axis)
       IN IF IterFRaises(target_sl_axis) \/ IterFRaises(source_sl_axis)
          THEN Abort /\ UNCHANGED <<grad, lateral_start, proj_axis>>
          ELSE IF ProjStarts = {}
          THEN /\ Abort
               /\ proj_axis' = [proj_axis EXCEPT !["backward_G"] = remain]
               /\ UNCHANGED <<grad, lateral_start>>
          ELSE \E sA \in ProjStarts, sB \in ProjStarts,
                  sReal \in ProjStarts, sFake \in ProjStarts :
                 IF \/ ProjRaises(remain, sA)
                    \/ ProjRaises(remain, sB)
                    \/ ProjRaises(0, sReal)
                    \/ ProjRaises(0, sFake)
                 THEN /\ Abort
                      /\ proj_axis' = [proj_axis EXCEPT !["backward_G"] = remain]
                      /\ UNCHANGED <<grad, lateral_start>>
                 ELSE /\ lateral_start' = <<sReal, sFake>>
                      /\ proj_axis' = [proj_axis EXCEPT !["backward_G"] = remain]
                      /\ grad' = backward(grad, requires_grad, "loss_G", loss_G_graph)
                      /\ Done("backward_G")
    /\ UNCHANGED <<stepFrame, tensors, source_sl_axis, requires_grad, params>>

\* self.optimizer_G.step()
StepG ==
    /\ pc = "step_G"
    /\ params' = step(params, optimizer_G)
    /\ Done("step_G")
    /\ UNCHANGED <<stepFrame, tensors, source_sl_axis, requires_grad, grad,
                   lateral_start, proj_axis>>

\* self.set_requires_grad([the six discriminators], True)
UnfreezeD ==
    /\ pc = "unfreeze_D"
    /\ requires_grad' = set_requires_grad(requires_grad, UnfrozenNets, TRUE)
    /\ Done("unfreeze_D")
    /\ UNCHANGED <<stepFrame, tensors, source_sl_axis, grad, params, lateral_start,
                   proj_axis>>

\* self.optimizer_D.zero_grad()
ZeroGradD ==
    /\ pc = "zero_grad_D"
    /\ grad' = zero_grad(grad, optimizer_D)
    /\ Done("zero_grad_D")
    /\ UNCHANGED <<stepFrame, tensors, source_sl_axis, requires_grad, params,
                   lateral_start, proj_axis>>

\* backward_D_basic(netD, real, fake, slice_axis_real, slice_axis_fake) as the
\* statement stmt
backward_D_basic(stmt, netD, real, fake, slice_axis_real, slice_axis_fake) ==
    /\ pc = stmt
    /\ IF IterFRaises(slice_axis_real) \/ IterFRaises(slice_axis_fake)
       THEN Abort /\ grad' = grad
       ELSE /\ grad' = backward(grad, requires_grad, "loss_" \o netD,
                                loss_D_graph(netD, real, fake))
            /\ Done(stmt)
    /\ UNCHANGED <<stepFrame, tensors, source_sl_axis, requires_grad, params,
                   lateral_start, proj_axis>>

\* backward_D_projection(netD, real, fake, slice_axis_real, slice_axis_fake) as
\* the statement stmt
backward_D_projection(stmt, netD, real, fake, slice_axis_real, slice_axis_fake) ==
    /\ pc = stmt
    /\ IF ProjStarts = {}
       THEN Abort /\ grad' = grad
       ELSE \E sReal \in ProjStarts, sFake \in ProjStarts :
              IF ProjRaises(slice_axis_real, sReal) \/ ProjRaises(slice_axis_fake, sFake)
              THEN Abort /\ grad' = grad
              ELSE /\ grad' = backward(grad, requires_grad, "loss_" \o netD,
                                       loss_D_graph(netD, real, fake))
                   /\ Done(stmt)
    /\ proj_axis' = [proj_axis EXCEPT ![stmt] = slice_axis_fake]
    /\ UNCHANGED <<stepFrame, tensors, source_sl_axis, requires_grad, params,
                   lateral_start>>

BackwardDALateral ==
    backward_D_basic("backward_D_A_lateral", "D_A_lateral", tensors.real, tensors.fake,
                     target_sl_axis, target_sl_axis)

BackwardDAAxial ==
    backward_D_basic("backward_D_A_axial", "D_A_axial", tensors.real, tensors.fake,
                     target_sl_axis, source_sl_axis)

BackwardDAAxialProj ==
    backward_D_projection("backward_D_A_axial_proj", "D_A_axial_proj",
                          tensors.real, tensors.fake, target_sl_axis,
                          compare_sl_axis_A(mix_planes, source_sl_axis))

BackwardDBLateral ==
    backward_D_basic("backward_D_B_lateral", "D_B_lateral", tensors.real, tensors.rec,
                     target_sl_axis, target_sl_axis)

BackwardDBAxial ==
    backward_D_basic("backward_D_B_axial", "D_B_axial", tensors.real, tensors.rec,
                     source_sl_axis, source_sl_axis)

BackwardDBAxialProj ==
    backward_D_projection("backward_D_B_axial_proj", "D_B_axial_proj",
                          tensors.real, tensors.rec,
                          compare_sl_axis_B(mix_planes, source_sl_axis),
                          compare_sl_axis_B(mix_planes, source_sl_axis))

\* self.optimizer_D.step()
StepD ==
    /\ pc = "step_D"
    /\ params' = step(params, optimizer_D)
    /\ Done("step_D")
    /\ UNCHANGED <<stepFrame, tensors, source_sl_axis, requires_grad, grad,
                   lateral_start, proj_axis>>

Next ==
    \/ SetInput \/ Forward \/ DrawAxis
    \/ FreezeD \/ ZeroGradG \/ BackwardG \/ StepG
    \/ UnfreezeD \/ ZeroGradD
    \/ BackwardDALateral \/ BackwardDAAxial \/ BackwardDAAxialProj
    \/ BackwardDBLateral \/ BackwardDBAxial \/ BackwardDBAxialProj
    \/ StepD

Spec == Init /\ [][Next]_vars

\* ------------------------------------------ the projection scenario (SpecScenario)
\* A volume with 8 slices along the projected axis whose value at index k along
\* that axis is k, projected with depth 4; the other extents vary, the last
\* one (which Volume records as num_slice) between 8 and 9.
ScenarioDims == {1, 2, 8, 9}
ScenarioLast == {8, 9}
ScenarioShapes == ScenarioDims \X ScenarioDims \X ScenarioLast
Unit(slice_axis) == [i \in 1..3 |-> IF i = slice_axis + 1 THEN 1 ELSE 0]

InitScenario ==
    /\ \E shape \in ScenarioShapes, slice_axis \in {0, 1, 2} :
         /\ Extent(shape, slice_axis) = 8
         /\ vol = Volume(Tensor(shape, Unit(slice_axis)))
    /\ call = NoCall
    /\ ret = NotCalled
    /\ TrainIdle

\* Volume.get_projection(4, slice_axis) along the axis the values follow; the
\* call also records the values the draw of start_index can return
CallScenarioProjection ==
    /\ call.op = "none"
    /\ \E slice_axis \in {0, 1, 2} :
         /\ Extent(CallShape, slice_axis) = 8
         /\ vol.volume = Tensor(CallShape, Unit(slice_axis))
         /\ LET starts == randint(0, vol.num_slice - 4)
                made == [op |-> "get_projection", slice_index |-> 0,
                         slice_axis |-> slice_axis, depth |-> 4, drawn |-> -1,
                         starts |-> starts]
            IN IF starts = {}
               THEN call' = made /\ ret' = Raise("ValueError")
               ELSE \E start_index \in starts :
                      /\ call' = [made EXCEPT !.drawn = start_index]
                      /\ ret' = get_projection(vol, 4, slice_axis, start_index)
    /\ UNCHANGED <<vol, trainVars>>

NextScenario == CallScenarioProjection

SpecScenario == InitScenario /\ [][NextScenario]_vars

\* ===================================================================== claims
IsPrefix(a, b) == Len(a) <= Len(b) /\ SubSeq(b, 1, Len(a)) = a
AllDiscs(flag) == \A d \in Discriminators : requires_grad[d] = flag
DiscBackwards == {"backward_D_A_lateral", "backward_D_A_axial", "backward_D_A_axial_proj",
                  "backward_D_B_lateral", "backward_D_B_axial", "backward_D_B_axial_proj"}
StepComplete == pc = "idle" /\ stepNo > 0

ExpectedOrder ==
    << "forward", "draw_axis", "freeze_D", "zero_grad_G", "backward_G", "step_G",
       "unfreeze_D", "zero_grad_D",
       "backward_D_A_lateral", "backward_D_A_axial", "backward_D_A_axial_proj",
       "backward_D_B_lateral", "backward_D_B_axial", "backward_D_B_axial_proj",
       "step_D" >>

\* C1: within every optimize_parameters call the statements complete in the
\* order forward, axis draw, freeze, zero G grads, G backward, G step, unfreeze,
\* zero D grads, six D backwards, D step; the six discriminators are frozen
\* around the generator backward and unfrozen around the six discriminator
\* backwards; the D step comes after all six D backwards have accumulated; a
\* completed call has stepped every generator and every discriminator once.
C1_StepOrder ==
    /\ IsPrefix(trace, ExpectedOrder)
    /\ pc \notin {"idle", "error", "off"} => pc = ExpectedOrder[Len(trace) + 1]
    /\ pc \in {"backward_G", "step_G"} => AllDiscs(FALSE)
    /\ pc \in DiscBackwards \cup {"step_D"} => AllDiscs(TRUE)
    /\ pc = "step_D" => \A d \in Discriminators : ("loss_" \o d) \in grad[d]
    /\ StepComplete =>
         /\ trace = ExpectedOrder
         /\ \A n \in Networks : params[n] = params_at_start[n] + 1

C1_Witness == StepComplete /\ stepNo = 2 /\ trace = ExpectedOrder

\* C2 (as claimed): whenever the generator optimizer step has completed and the
\* discriminators are not yet unfrozen, every discriminator's accumulated
\* gradient is zero.
C2_DiscGradZeroAfterGen ==
    pc = "unfreeze_D" => \A d \in Discriminators : grad[d] = {}

\* C2 (amended): at that moment every discriminator's accumulated gradient is
\* what it was when the step began: zero in the first step, the discriminator's
\* own loss of the previous step afterwards; loss_G is never part of it.
C2_DiscGradUntouchedByGen ==
    pc = "unfreeze_D" =>
        \A d \in Discriminators :
            grad[d] = IF stepNo = 1 THEN {} ELSE {"loss_" \o d}

C2_Witness ==
    pc = "unfreeze_D" /\ stepNo = 2 /\ grad["G_A"] = {"loss_G"}
      /\ grad["D_A_axial_proj"] = {"loss_D_A_axial_proj"}

InDiscPhase == pc \in {"unfreeze_D", "zero_grad_D", "step_D"} \cup DiscBackwards

\* C3: from the end of the generator optimizer step to the end of the
\* discriminator optimizer step no statement changes the parameters or the
\* accumulated gradients of G_A and G_B.
C3_GenUntouchedByDisc ==
    [][InDiscPhase =>
          (\A g \in Generators : params'[g] = params[g] /\ grad'[g] = grad[g])]_vars

C3_Witness ==
    /\ StepComplete
    /\ \A g \in Generators : grad[g] = {"loss_G"} /\ params[g] = stepNo
    /\ \A d \in Discriminators : grad[d] = {"loss_" \o d}

\* the maximum over the window s .. s+d-1 along axis a, at position p
WindowMax(a, s, d, p) == SetMax({vol.volume.data[CellAt(a, k, p)] : k \in s..(s + d - 1)})
CallExtent == Extent(CallShape, call.slice_axis)

\* C4: get_projection(d, a) with a in {0,1,2} and 1 <= d < extent(a) returns, at
\* each position, the maximum of the d elements s .. s+d-1 along axis a for one
\* start s with 0 <= s < extent(a) - d.
C4_ProjectionIsWindowMax ==
    (call.op = "get_projection" /\ call.slice_axis \in {0, 1, 2}
       /\ 1 <= call.depth /\ call.depth < CallExtent) =>
        /\ ret.status = "ok"
        /\ \E s \in 0..(CallExtent - call.depth - 1) :
             \A p \in Positions(PlaneShape(CallShape, call.slice_axis)) :
                ret.value.data[p] = WindowMax(call.slice_axis, s, call.depth, p)

\* C5: get_projection(d, a) with a in {0,1,2} and d >= extent(a) raises.
C5_DeepProjectionRaises ==
    (call.op = "get_projection" /\ call.slice_axis \in {0, 1, 2}
       /\ call.depth >= CallExtent) => ret.status = "error"

\* C6: when optimize_parameters has aborted with an error, no network
\* parameter has been updated in that call.
C6_AbortBeforeAnyStep ==
    pc = "error" => params = params_at_start

\* C7: get_slice, set_slice and get_projection with an axis outside {0,1,2}
\* raise.
C7_BadAxisRaises ==
    (call.op \in {"get_slice", "set_slice", "get_projection"}
       /\ call.slice_axis \notin {0, 1, 2}) => ret.status = "error"

\* iter_f returned a volume of depth num_slice whose plane i is the
\* discriminator's prediction on slice i of the input along the axis of the call
IterFResultRight ==
    /\ ret.status = "ok"
    /\ ret.value.shape[1] = CallShape[1]
    /\ \A i \in 0..(CallShape[1] - 1) :
         \A p \in Positions(PlaneShape(CallShape, call.slice_axis)) :
            /\ ret.value.data[<<i, p[1], p[2]>>] =
                  2 * vol.volume.data[CellAt(call.slice_axis, i, p)] + 1
            /\ ret.value.data[<<i, p[1], p[2]>>] # 0

\* C8 (as claimed): for every shape and every axis in {0,1,2} iter_f returns
\* normally a volume of depth num_slice whose plane i is the discriminator
\* applied to input slice i, none left at the zero fill.
C8_IterFAlwaysReturns ==
    (call.op = "iter_f" /\ call.slice_axis \in {0, 1, 2}) => IterFResultRight

\* C8 (amended): that holds when num_slice (the D extent) does not exceed the
\* extent of the sliced axis; otherwise iter_f raises an IndexError.
C8_IterFWithinExtent ==
    (call.op = "iter_f" /\ call.slice_axis \in {0, 1, 2}) =>
        IF CallShape[1] <= CallExtent
        THEN IterFResultRight
        ELSE ret = Raise("IndexError")

C8_Witness ==
    /\ call.op = "iter_f" /\ call.slice_axis = 2
    /\ CallShape = <<2, 1, 3>>
    /\ ret.status = "ok"

\* C9: the source axis drawn in a step is one of the non-target axes 1 and 2.
C9_SourceAxisNonTarget ==
    source_sl_axis # Unset =>
        source_sl_axis \in {1, 2} /\ source_sl_axis # target_sl_axis

\* C10: the start index drawn for the projection of the real volume in
\* backward_G equals the one drawn for the projection of the fake volume.
C10_SameLateralWindow ==
    lateral_start[1] = lateral_start[2]

\* C11: with mix_planes set, the axis each of the three places (backward_G,
\* backward_D_A_axial_proj, backward_D_B_axial_proj) hands to the
\* axial-projection head is not the target axis 0 and is not the source
\* slicing axis drawn for the step.
C11_ProjAxisOtherNonTarget ==
    mix_planes =>
        \A place \in ProjPlaces :
            proj_axis[place] # Unset =>
                /\ proj_axis[place] # target_sl_axis
                /\ proj_axis[place] # source_sl_axis

\* the projection returned has the value v at every position
MipEverywhere(v) ==
    \A p \in Positions(PlaneShape(CallShape, call.slice_axis)) : ret.value.data[p] = v

\* C12 (as claimed): on a volume with 8 slices along the projected axis and
\* value k at index k, get_projection with depth 4 returns start+3 everywhere,
\* and the start indices that can be drawn are exactly 0, 1, 2, 3 and 4.
C12_StartsZeroToFour ==
    call.op = "get_projection" =>
        /\ ret.status = "ok"
        /\ MipEverywhere(call.drawn + 3)
        /\ call.starts = {0, 1, 2, 3, 4}

\* C12 (amended): when the volume's last dimension also has 8 entries
\* (Volume.num_slice = 8), the call returns start+3 everywhere and the start
\* indices that can be drawn are exactly 0, 1, 2 and 3, so the values are
\* among 3, 4, 5 and 6.
C12_StartsZeroToThree ==
    (call.op = "get_projection" /\ vol.num_slice = 8) =>
        /\ ret.status = "ok"
        /\ MipEverywhere(call.drawn + 3)
        /\ call.starts = {0, 1, 2, 3}
        /\ call.drawn \in call.starts
        /\ {s + 3 : s \in call.starts} = {3, 4, 5, 6}

C12_Witness ==
    /\ call.op = "get_projection" /\ call.slice_axis = 0
    /\ CallShape = <<8, 8, 8>>
    /\ call.drawn = 3
    /\ ret.status = "ok" /\ MipEverywhere(6)

====
